---- MODULE Spec2Model ----
(***************************************************************************)
(* Ledger kernel of the bookkeeping system: accounts, fiscal years,        *)
(* verifications (transactions) with their lines, the posting engine       *)
(* (AccountingService.create_transaction and the amendment operations),    *)
(* SIE import (SIEImporter.import_file), the balance engine                *)
(* (get_account_balance, get_trial_balance) and the annual close           *)
(* (ClosingService.close_year).                                            *)
(*                                                                         *)
(* Money is an integer number of minor units, a date is a day number.      *)
(* Every handler runs in its own session against the committed store; a    *)
(* handler that raises leaves the committed store as it was (the pending   *)
(* unit of work is rolled back by the failed flush).  Two specifications   *)
(* look inside a session: SpecSession keeps one session over several calls *)
(* of the accrual service, SpecConcurrent runs create_transaction in       *)
(* several sessions at once.                                               *)
(***************************************************************************)
EXTENDS Integers, Sequences, FiniteSets, TLC

VARIABLES
    accounts,       \* table accounts: id (index) -> row
    fiscal_years,   \* table fiscal_years: id (index) -> row
    transactions,   \* table transactions, each row with its transaction_lines
    accruals,       \* table accruals: id (index) -> row
    accrual_entries, \* table accrual_entries
    assets,         \* table assets: id (index) -> row
    asset_depreciations, \* table asset_depreciations
    templates,      \* table transaction_templates, each row with its line items
    last,           \* the handler that ran last, with the create_transaction call it made
    hist,           \* history of the ledger: deletions, imports, numbers handed out
    sessions,       \* the create_transaction call each concurrent session is in
    pending         \* accrual entries added to the kept session and not yet written

\* the tables of the rule postings
rule_postings == <<accruals, accrual_entries, assets, asset_depreciations, templates>>

\* what the sessions hold besides the committed tables
session_state == <<sessions, pending>>

vars == <<accounts, fiscal_years, transactions, accruals, accrual_entries,
          assets, asset_depreciations, templates, last, hist, sessions, pending>>

-----------------------------------------------------------------------------
(* Bounds of the model *)

MaxTx == 2          \* rows in table transactions
MaxLines == 3       \* lines of one verification
MaxAmount == 1      \* largest amount a caller passes
MaxDate == 3        \* last day of the calendar
MaxVer == 3         \* largest verification number handed out
MaxRowId == 3       \* largest row id of table transactions
MaxOps == 3         \* handler calls in one run
MaxAmends == 1      \* of them, amendments of verification lines
MaxDefs == 1        \* rows in table accruals, and in table assets
MaxTotal == 5       \* largest total amount of an accrual, largest cost of an asset
MaxPeriods == 3     \* largest number of periods of an accrual, longest useful life
MaxSessions == 2    \* sessions that call create_transaction at the same time

Amounts == (0 - 1)..MaxAmount
Dates == 1..MaxDate
NoDate == 0 - 1     \* Python None for an optional date
None == 0 - 99      \* Python None for an optional id or amount

-----------------------------------------------------------------------------
(* Generic helpers *)

Max(S) == CHOOSE x \in S : \A y \in S : y <= x

abs(x) == IF x < 0 THEN 0 - x ELSE x

RECURSIVE SeqSum(_)
SeqSum(s) == IF s = <<>> THEN 0 ELSE Head(s) + SeqSum(Tail(s))

Ids(table) == 1..Len(table)

-----------------------------------------------------------------------------
(* Rows *)

Line(account_id, debit, credit) ==
    [account_id |-> account_id, debit |-> debit, credit |-> credit]

TxIds(txs) == {t.id : t \in txs}

TxById(txs, id) == CHOOSE t \in txs : t.id = id

\* Transaction.total_debit / total_credit / is_balanced
total_debit(lines) == SeqSum([i \in 1..Len(lines) |-> lines[i].debit])
total_credit(lines) == SeqSum([i \in 1..Len(lines) |-> lines[i].credit])
is_balanced(lines) == total_debit(lines) = total_credit(lines)

\* a constraint that only keeps both columns from being negative
check_not_negative(line) ==
    line.debit >= 0 /\ line.credit >= 0

\* CHECK constraint check_debit_or_credit of table transaction_lines
check_debit_or_credit(line) ==
    \/ line.debit > 0 /\ line.credit = 0
    \/ line.debit = 0 /\ line.credit > 0
    \/ line.debit = 0 /\ line.credit = 0

\* FiscalYear.contains_date
contains_date(fy, check_date) ==
    fy.start_date <= check_date /\ check_date <= fy.end_date

\* INTEGER PRIMARY KEY of an SQLite table: largest rowid in the table + 1
next_rowid(txs) == IF txs = {} THEN 1 ELSE Max(TxIds(txs)) + 1

-----------------------------------------------------------------------------
(* Posting engine *)

\* get_next_verification_number without the filter on the fiscal year
get_next_verification_number_per_company(txs, company_id, fiscal_year_id) ==
    LET nums == {t.verification_number : t \in
                    {u \in txs : u.company_id = company_id}}
        max_ver == IF nums = {} THEN 0 ELSE Max(nums)
    IN  max_ver + 1

\* AccountingService.get_next_verification_number
get_next_verification_number(txs, company_id, fiscal_year_id) ==
    LET nums == {t.verification_number : t \in
                    {u \in txs : u.company_id = company_id
                                 /\ u.fiscal_year_id = fiscal_year_id}}
        max_ver == IF nums = {} THEN 0 ELSE Max(nums)
    IN  max_ver + 1

NoCall ==
    [called |-> FALSE, company_id |-> 0, fiscal_year_id |-> 0,
     transaction_date |-> 0, lines |-> <<>>, ok |-> FALSE, error |-> "",
     tx_id |-> 0, verification_number |-> 0]

\* create_transaction without the two validations in front of the insert
create_transaction_unvalidated(txs, company_id, fiscal_year_id, transaction_date, lines) ==
    LET call == [NoCall EXCEPT !.called = TRUE, !.company_id = company_id,
                               !.fiscal_year_id = fiscal_year_id,
                               !.transaction_date = transaction_date,
                               !.lines = lines]
        ver_number == get_next_verification_number(txs, company_id, fiscal_year_id)
        transaction == [id |-> next_rowid(txs),
                        company_id |-> company_id,
                        fiscal_year_id |-> fiscal_year_id,
                        verification_number |-> ver_number,
                        transaction_date |-> transaction_date,
                        lines |-> lines]
    IN  IF \E i \in 1..Len(lines) : ~check_debit_or_credit(lines[i])
        THEN [call |-> [call EXCEPT !.error = "IntegrityError"], transactions |-> txs]
        ELSE [call |-> [call EXCEPT !.ok = TRUE, !.tx_id = transaction.id,
                                    !.verification_number = ver_number],
              transactions |-> txs \cup {transaction}]

\* create_transaction without the check for a zero total
create_transaction_zero_total(txs, company_id, fiscal_year_id, transaction_date, lines) ==
    IF total_debit(lines) # total_credit(lines)
    THEN [call |-> [NoCall EXCEPT !.called = TRUE, !.company_id = company_id,
                                  !.fiscal_year_id = fiscal_year_id,
                                  !.transaction_date = transaction_date,
                                  !.lines = lines, !.error = "ValueError"],
          transactions |-> txs]
    ELSE create_transaction_unvalidated(txs, company_id, fiscal_year_id,
             transaction_date, lines)

\* AccountingService.create_transaction: the call, what it returned or raised,
\* and the committed table transactions after it
create_transaction(txs, company_id, fiscal_year_id, transaction_date, lines) ==
    LET call == [NoCall EXCEPT !.called = TRUE, !.company_id = company_id,
                               !.fiscal_year_id = fiscal_year_id,
                               !.transaction_date = transaction_date,
                               !.lines = lines]
        ver_number == get_next_verification_number(txs, company_id, fiscal_year_id)
        transaction == [id |-> next_rowid(txs),
                        company_id |-> company_id,
                        fiscal_year_id |-> fiscal_year_id,
                        verification_number |-> ver_number,
                        transaction_date |-> transaction_date,
                        lines |-> lines]
    IN  IF total_debit(lines) # total_credit(lines)
        THEN [call |-> [call EXCEPT !.error = "ValueError"], transactions |-> txs]
        ELSE IF total_debit(lines) = 0
        THEN [call |-> [call EXCEPT !.error = "ValueError"], transactions |-> txs]
        ELSE IF \E i \in 1..Len(lines) : ~check_debit_or_credit(lines[i])
        THEN [call |-> [call EXCEPT !.error = "IntegrityError"], transactions |-> txs]
        ELSE [call |-> [call EXCEPT !.ok = TRUE, !.tx_id = transaction.id,
                                    !.verification_number = ver_number],
              transactions |-> txs \cup {transaction}]

-----------------------------------------------------------------------------
(* Account catalog *)

\* first character of Account.number (the BAS class)
RECURSIVE first_digit(_)
first_digit(number) == IF number < 10 THEN number ELSE first_digit(number \div 10)

\* ids of the company's accounts with the given number, lowest id first
AccountIdsByNumber(accs, company_id, number) ==
    {a \in Ids(accs) : accs[a].company_id = company_id /\ accs[a].number = number}

\* query(Account).filter(company_id, number).first(): 0 stands for None
get_account_by_number(accs, company_id, number) ==
    LET found == AccountIdsByNumber(accs, company_id, number)
    IN  IF found = {} THEN 0 ELSE CHOOSE a \in found : \A b \in found : a <= b

\* AccountingService.get_accounts: the ids of the company's accounts
get_accounts(accs, company_id) ==
    {a \in Ids(accs) : accs[a].company_id = company_id}

-----------------------------------------------------------------------------
(* Balance engine *)

\* SUM(column) over the lines of one verification that are on the account
RECURSIVE line_sum(_, _, _)
line_sum(lines, account_id, column) ==
    IF lines = <<>> THEN 0
    ELSE (IF Head(lines).account_id = account_id
          THEN (IF column = "debit" THEN Head(lines).debit ELSE Head(lines).credit)
          ELSE 0)
         + line_sum(Tail(lines), account_id, column)

\* column_sum with the cutoff date itself left out
RECURSIVE column_sum_before(_, _, _, _)
column_sum_before(txs, account_id, end_date, column) ==
    IF txs = {} THEN 0
    ELSE LET t == CHOOSE u \in txs : TRUE
         IN  (IF end_date = NoDate \/ t.transaction_date < end_date
              THEN line_sum(t.lines, account_id, column) ELSE 0)
             + column_sum_before(txs \ {t}, account_id, end_date, column)

\* SUM(column) over transaction_lines JOIN transactions, filtered on the
\* account and, when end_date is given, on transaction_date <= end_date
RECURSIVE column_sum(_, _, _, _)
column_sum(txs, account_id, end_date, column) ==
    IF txs = {} THEN 0
    ELSE LET t == CHOOSE u \in txs : TRUE
         IN  (IF end_date = NoDate \/ t.transaction_date <= end_date
              THEN line_sum(t.lines, account_id, column) ELSE 0)
             + column_sum(txs \ {t}, account_id, end_date, column)

\* get_account_balance with the sign turned for the credit-normal classes
get_account_balance_by_class(accs, txs, account_id, end_date) ==
    IF account_id \notin Ids(accs) THEN 0
    ELSE LET total_d == column_sum(txs, account_id, end_date, "debit")
             total_c == column_sum(txs, account_id, end_date, "credit")
             ib == accs[account_id].opening_balance
         IN  IF first_digit(accs[account_id].number) \in {2, 3}
             THEN ib + total_c - total_d
             ELSE ib + total_d - total_c

\* AccountingService.get_account_balance
get_account_balance(accs, txs, account_id, end_date) ==
    IF account_id \notin Ids(accs) THEN 0
    ELSE LET total_d == column_sum(txs, account_id, end_date, "debit")
             total_c == column_sum(txs, account_id, end_date, "credit")
             ib == accs[account_id].opening_balance
         IN  ib + total_d - total_c

\* AccountingService.get_trial_balance: one row per account with a balance
get_trial_balance(accs, txs, company_id, end_date) ==
    {[account_id |-> a,
      balance |-> get_account_balance(accs, txs, a, end_date),
      debit |-> IF get_account_balance(accs, txs, a, end_date) >= 0
                THEN get_account_balance(accs, txs, a, end_date) ELSE 0,
      credit |-> IF get_account_balance(accs, txs, a, end_date) >= 0
                 THEN 0 ELSE abs(get_account_balance(accs, txs, a, end_date))]
        : a \in {b \in get_accounts(accs, company_id) :
                    get_account_balance(accs, txs, b, end_date) # 0}}

RECURSIVE RowSum(_, _)
RowSum(rows, column) ==
    IF rows = {} THEN 0
    ELSE LET r == CHOOSE x \in rows : TRUE
         IN  (IF column = "debit" THEN r.debit ELSE r.credit)
             + RowSum(rows \ {r}, column)

\* ClosingService._check_trial_balance: |debit - credit| < 0.01
check_trial_balance(accs, txs, company_id, as_of_date) ==
    LET balances == get_trial_balance(accs, txs, company_id, as_of_date)
    IN  abs(RowSum(balances, "debit") - RowSum(balances, "credit")) < 1

\* ClosingService.validate_closing: is_valid
validate_closing(accs, txs, company_id, period_end) ==
    check_trial_balance(accs, txs, company_id, period_end)

RECURSIVE BalanceSum(_, _, _, _)
BalanceSum(accs, txs, ids, end_date) ==
    IF ids = {} THEN 0
    ELSE LET a == CHOOSE x \in ids : TRUE
         IN  get_account_balance(accs, txs, a, end_date)
             + BalanceSum(accs, txs, ids \ {a}, end_date)

\* ClosingService.calculate_period_result
calculate_period_result(accs, txs, company_id, start_date, end_date) ==
    LET mine == get_accounts(accs, company_id)
        revenue == BalanceSum(accs, txs,
                       {a \in mine : first_digit(accs[a].number) = 3}, end_date)
        expenses == BalanceSum(accs, txs,
                       {a \in mine : first_digit(accs[a].number) \in 4..8}, end_date)
    IN  revenue - expenses

-----------------------------------------------------------------------------
(* Closing engine *)

\* _create_result_disposition with the two sides exchanged
create_result_disposition_swapped(accs, txs, company_id, fiscal_year_id, result, disposition_date) ==
    LET current_year == get_account_by_number(accs, company_id, 2099)
        previous_year == get_account_by_number(accs, company_id, 2098)
        amount == abs(result)
        lines == IF result > 0
                 THEN <<Line(previous_year, amount, 0), Line(current_year, 0, amount)>>
                 ELSE <<Line(current_year, amount, 0), Line(previous_year, 0, amount)>>
    IN  IF result = 0
        THEN [call |-> NoCall, transactions |-> txs]
        ELSE IF current_year = 0 \/ previous_year = 0
        THEN [call |-> NoCall, transactions |-> txs]
        ELSE create_transaction(txs, company_id, fiscal_year_id, disposition_date, lines)

\* ClosingService._create_result_disposition
create_result_disposition(accs, txs, company_id, fiscal_year_id, result, disposition_date) ==
    LET current_year == get_account_by_number(accs, company_id, 2099)
        previous_year == get_account_by_number(accs, company_id, 2098)
        amount == abs(result)
        lines == IF result > 0
                 THEN <<Line(current_year, amount, 0), Line(previous_year, 0, amount)>>
                 ELSE <<Line(previous_year, amount, 0), Line(current_year, 0, amount)>>
    IN  IF result = 0
        THEN [call |-> NoCall, transactions |-> txs]
        ELSE IF current_year = 0 \/ previous_year = 0
        THEN [call |-> NoCall, transactions |-> txs]
        ELSE create_transaction(txs, company_id, fiscal_year_id, disposition_date, lines)

\* ClosingService.close_year for an existing fiscal year
close_year_outcome(accs, fys, txs, company_id, fiscal_year_id, with_disposition) ==
    LET fiscal_year == fys[fiscal_year_id]
        is_valid == validate_closing(accs, txs, company_id, fiscal_year.end_date)
        result == calculate_period_result(accs, txs, company_id,
                      fiscal_year.start_date, fiscal_year.end_date)
        disposition ==
            IF with_disposition /\ is_valid
            THEN create_result_disposition(accs, txs, company_id, fiscal_year_id,
                     result, fiscal_year.end_date)
            ELSE [call |-> NoCall, transactions |-> txs]
    IN  [call |-> disposition.call,
         transactions |-> disposition.transactions,
         fiscal_years |-> IF is_valid
                          THEN [fys EXCEPT ![fiscal_year_id].is_closed = TRUE]
                          ELSE fys]

\* ClosingService.create_opening_balances for an existing source fiscal year:
\* table accounts after the commit
create_opening_balances_outcome(accs, fys, txs, company_id, source_fiscal_year_id) ==
    LET source_fy == fys[source_fiscal_year_id]
        closing_balance(a) == get_account_balance(accs, txs, a, source_fy.end_date)
    IN  [a \in Ids(accs) |->
            IF /\ a \in get_accounts(accs, company_id)
               /\ first_digit(accs[a].number) \in {1, 2}
               /\ closing_balance(a) # 0
            THEN [accs[a] EXCEPT !.opening_balance = closing_balance(a)]
            ELSE accs[a]]

-----------------------------------------------------------------------------
(* SIE import *)

\* SIEImporter._determine_account_type is a function of the number alone and
\* is read by nothing modelled here; an account row carries number and name.

\* the accounts _import_accounts adds to the session: the query for an existing
\* account reads the rows of the database, and a session made by SessionLocal
\* (autoflush=False) writes the added accounts only at the commit after the loop
RECURSIVE added_accounts(_, _, _)
added_accounts(accs, company_id, sie_accounts) ==
    IF sie_accounts = <<>> THEN <<>>
    ELSE LET acc == Head(sie_accounts)
             existing == get_account_by_number(accs, company_id, acc.number)
             rest == added_accounts(accs, company_id, Tail(sie_accounts))
         IN  IF existing = 0
             THEN <<[company_id |-> company_id, number |-> acc.number,
                     name |-> acc.name, opening_balance |-> 0]>> \o rest
             ELSE rest

\* SIEImporter._import_accounts
import_accounts(accs, company_id, sie_accounts) ==
    accs \o added_accounts(accs, company_id, sie_accounts)

\* SIEImporter._get_or_create_fiscal_year: the table after it, and the id
FiscalYearIdsByRange(fys, company_id, start, end) ==
    {f \in Ids(fys) : fys[f].company_id = company_id
                      /\ fys[f].start_date = start /\ fys[f].end_date = end}

get_or_create_fiscal_year(fys, company_id, data) ==
    LET found == FiscalYearIdsByRange(fys, company_id,
                     data.fiscal_year_start, data.fiscal_year_end)
    IN  IF found # {}
        THEN [fiscal_years |-> fys,
              id |-> CHOOSE f \in found : \A g \in found : f <= g]
        ELSE [fiscal_years |-> Append(fys, [company_id |-> company_id,
                                            start_date |-> data.fiscal_year_start,
                                            end_date |-> data.fiscal_year_end,
                                            is_closed |-> FALSE]),
              id |-> Len(fys) + 1]

\* SIEImporter._import_opening_balances
RECURSIVE import_opening_balances(_, _, _)
import_opening_balances(accs, company_id, balances) ==
    IF balances = <<>> THEN accs
    ELSE LET account == get_account_by_number(accs, company_id, Head(balances).number)
         IN  import_opening_balances(
                 IF account # 0
                 THEN [accs EXCEPT ![account].opening_balance = Head(balances).balance]
                 ELSE accs,
                 company_id, Tail(balances))

\* the lines of one imported verification: lines on unknown accounts are dropped
RECURSIVE resolve_lines(_, _, _)
resolve_lines(accs, company_id, sie_lines) ==
    IF sie_lines = <<>> THEN <<>>
    ELSE LET account == get_account_by_number(accs, company_id,
                            Head(sie_lines).account_number)
             rest == resolve_lines(accs, company_id, Tail(sie_lines))
         IN  IF account # 0
             THEN <<Line(account, Head(sie_lines).debit, Head(sie_lines).credit)>> \o rest
             ELSE rest

\* SIEImporter._import_transactions
RECURSIVE import_transactions(_, _, _, _, _)
import_transactions(accs, txs, company_id, fiscal_year_id, sie_transactions) ==
    IF sie_transactions = <<>> THEN txs
    ELSE LET tx_data == Head(sie_transactions)
             lines == resolve_lines(accs, company_id, tx_data.lines)
             transaction == [id |-> next_rowid(txs),
                             company_id |-> company_id,
                             fiscal_year_id |-> fiscal_year_id,
                             verification_number |-> tx_data.verification_number,
                             transaction_date |-> tx_data.date,
                             lines |-> lines]
         IN  import_transactions(accs,
                 IF tx_data.lines # <<>> /\ lines # <<>>
                 THEN txs \cup {transaction} ELSE txs,
                 company_id, fiscal_year_id, Tail(sie_transactions))

\* SIEImporter.import_file into an existing company, from the parsed SIEData
import_file_outcome(accs, fys, txs, data, company_id) ==
    LET accs1 == IF data.accounts # <<>>
                 THEN import_accounts(accs, company_id, data.accounts) ELSE accs
        fy == get_or_create_fiscal_year(fys, company_id, data)
        accs2 == import_opening_balances(accs1, company_id, data.opening_balances)
    IN  [accounts |-> accs2,
         fiscal_years |-> fy.fiscal_years,
         fiscal_year_id |-> fy.id,
         transactions |-> import_transactions(accs2, txs, company_id, fy.id,
                              data.transactions)]

-----------------------------------------------------------------------------
(* Accrual scheduler *)

\* (num / den).quantize(Decimal('0.01')) in minor units, for num >= 0: the
\* decimal context rounds half to even
quantize(num, den) ==
    LET q == num \div den
        r == num % den
    IN  IF 2 * r < den THEN q
        ELSE IF 2 * r > den THEN q + 1
        ELSE IF q % 2 = 0 THEN q ELSE q + 1

\* relativedelta(months=1): the periods of a monthly accrual are one calendar
\* step apart
period_step == 1

RECURSIVE EntrySum(_)
EntrySum(es) ==
    IF es = {} THEN 0
    ELSE LET e == CHOOSE x \in es : TRUE
         IN  e.amount + EntrySum(es \ {e})

EntriesOf(entries, accrual_id) == {e \in entries : e.accrual_id = accrual_id}

\* Accrual.remaining_amount
remaining_amount(accrs, entries, accrual_id) ==
    accrs[accrual_id].total_amount
    - EntrySum({e \in EntriesOf(entries, accrual_id) : e.is_booked})

\* Accrual.periods_remaining
periods_remaining(accrs, entries, accrual_id) ==
    accrs[accrual_id].periods
    - Cardinality({e \in EntriesOf(entries, accrual_id) : e.is_booked})

next_entry_id(entries) ==
    IF entries = {} THEN 1 ELSE Max({e.id : e \in entries}) + 1

\* AccrualService._create_accrual_transaction
create_accrual_transaction(txs, accrual, period_date, amount) ==
    create_transaction(txs, accrual.company_id, accrual.fiscal_year_id, period_date,
        IF accrual.accrual_type \in {"PREPAID_EXPENSE", "ACCRUED_EXPENSE"}
        THEN <<Line(accrual.target_account_id, amount, 0),
               Line(accrual.source_account_id, 0, amount)>>
        ELSE <<Line(accrual.source_account_id, amount, 0),
               Line(accrual.target_account_id, 0, amount)>>)

\* what a call of generate_entry or of its callers leaves behind
Generated(entries, txs, call, error, created) ==
    [accrual_entries |-> entries, transactions |-> txs, call |-> call,
     error |-> error, created |-> created]

\* generate_entry past the lookup of an existing entry: the amount, the entry
\* and its verification, committed together or not at all
book_entry(accrs, entries, txs, accrual_id, period_date, period_number) ==
    LET accrual == accrs[accrual_id]
        amount == IF period_number = accrual.periods
                  THEN remaining_amount(accrs, entries, accrual_id)
                  ELSE accrual.amount_per_period
        out == create_accrual_transaction(txs, accrual, period_date, amount)
        entry == [id |-> next_entry_id(entries), accrual_id |-> accrual_id,
                  period_date |-> period_date, period_number |-> period_number,
                  amount |-> amount, transaction_id |-> out.call.tx_id,
                  is_booked |-> TRUE]
    IN  IF out.call.ok
        THEN Generated(entries \cup {entry}, out.transactions, out.call, "", TRUE)
        ELSE Generated(entries, txs, out.call, out.call.error, FALSE)

\* generate_entry without the lookup of an existing entry
generate_entry_unchecked(accrs, entries, txs, accrual_id, period_date, period_number) ==
    book_entry(accrs, entries, txs, accrual_id, period_date, period_number)

\* AccrualService.generate_entry
generate_entry_outcome(accrs, entries, txs, accrual_id, period_date, period_number) ==
    LET existing == {e \in EntriesOf(entries, accrual_id) :
                        e.period_number = period_number}
    IN  IF existing # {}
        THEN Generated(entries, txs, NoCall, "", FALSE)
        ELSE book_entry(accrs, entries, txs, accrual_id, period_date, period_number)

\* the loop of _generate_pending_entries from period_num on; an error raised
\* by generate_entry ends it
RECURSIVE pending_loop(_, _, _, _, _)
pending_loop(accrs, st, accrual_id, period_num, up_to_date) ==
    LET accrual == accrs[accrual_id]
        current_date == accrual.start_date + (period_num - 1) * period_step
    IN  IF period_num > accrual.periods \/ current_date > up_to_date \/ st.error # ""
        THEN st
        ELSE CHOOSE done \in
                 {pending_loop(accrs,
                      Generated(out.accrual_entries, out.transactions,
                          IF out.call.called THEN out.call ELSE st.call,
                          out.error, st.created \/ out.created),
                      accrual_id, period_num + 1, up_to_date) :
                    out \in {generate_entry_outcome(accrs, st.accrual_entries,
                                st.transactions, accrual_id, current_date,
                                period_num)}} : TRUE

\* AccrualService._generate_pending_entries: the tables after it
generate_pending_entries(accrs, st, accrual_id, up_to_date) ==
    CHOOSE after \in
        {[accruals |-> IF done.error = ""
                          /\ periods_remaining(accrs, done.accrual_entries, accrual_id) = 0
                       THEN [accrs EXCEPT ![accrual_id].is_active = FALSE]
                       ELSE accrs,
          st |-> done] :
            done \in {pending_loop(accrs, st, accrual_id, 1, up_to_date)}} : TRUE

\* AccrualService.get_accruals(company_id, active_only=True)
get_accruals(accrs, company_id) ==
    {a \in Ids(accrs) : accrs[a].company_id = company_id /\ accrs[a].is_active}

\* the loop of run_auto_accruals over the accruals still to do, latest
\* start_date first
RECURSIVE auto_loop(_, _, _, _)
auto_loop(accrs, st, todo, up_to_date) ==
    IF todo = {} \/ st.error # "" THEN [accruals |-> accrs, st |-> st]
    ELSE LET a == CHOOSE x \in todo : \A y \in todo :
                      \/ accrs[x].start_date > accrs[y].start_date
                      \/ accrs[x].start_date = accrs[y].start_date /\ x <= y
         IN  CHOOSE after \in
                 {auto_loop(out.accruals, out.st, todo \ {a}, up_to_date) :
                    out \in {IF accrs[a].auto_generate
                             THEN generate_pending_entries(accrs, st, a, up_to_date)
                             ELSE [accruals |-> accrs, st |-> st]}} : TRUE

\* AccrualService.run_auto_accruals
run_auto_accruals_outcome(accrs, entries, txs, company_id, up_to_date) ==
    auto_loop(accrs, Generated(entries, txs, NoCall, "", FALSE),
        get_accruals(accrs, company_id), up_to_date)

\* the rows a commit writes for the accrual entries that were added to the
\* session and not written yet, in the order they were added
RECURSIVE flush_entries(_, _)
flush_entries(entries, added) ==
    IF added = <<>> THEN entries
    ELSE CHOOSE done \in
             {flush_entries(written, Tail(added)) :
                written \in {entries \cup
                    {[Head(added) EXCEPT !.id = next_entry_id(entries)]}}} : TRUE

\* AccrualService.generate_entry on a session the caller keeps after an error:
\* the entry is added to the session before the verification is posted, the
\* commits of a posting that succeeds write it with whatever else the session
\* holds, a posting that raises before its flush leaves it in the session, and
\* a flush that fails rolls the session back
generate_entry_on_session(accrs, entries, txs, added, accrual_id, period_date, period_number) ==
    LET accrual == accrs[accrual_id]
        existing == {e \in EntriesOf(entries, accrual_id) :
                        e.period_number = period_number}
        amount == IF period_number = accrual.periods
                  THEN remaining_amount(accrs, entries, accrual_id)
                  ELSE accrual.amount_per_period
        entry == [id |-> 0, accrual_id |-> accrual_id, period_date |-> period_date,
                  period_number |-> period_number, amount |-> amount,
                  transaction_id |-> 0, is_booked |-> FALSE]
        out == create_accrual_transaction(txs, accrual, period_date, amount)
        written == flush_entries(entries, added)
    IN  IF existing # {}
        THEN [accrual_entries |-> entries, transactions |-> txs, pending |-> added,
              call |-> NoCall]
        ELSE IF out.call.ok
        THEN [accrual_entries |-> written \cup
                  {[entry EXCEPT !.id = next_entry_id(written),
                                 !.transaction_id = out.call.tx_id,
                                 !.is_booked = TRUE]},
              transactions |-> out.transactions, pending |-> <<>>,
              call |-> out.call]
        ELSE [accrual_entries |-> entries, transactions |-> txs,
              pending |-> IF out.call.error = "IntegrityError" THEN <<>>
                          ELSE Append(added, entry),
              call |-> out.call]

-----------------------------------------------------------------------------
(* Depreciation scheduler *)

DepreciationsOf(deps, asset_id) == {p \in deps : p.asset_id = asset_id}

\* Asset.get_accumulated_depreciation
get_accumulated_depreciation(deps, asset_id, as_of_date) ==
    EntrySum({p \in DepreciationsOf(deps, asset_id) :
                 p.depreciation_date <= as_of_date})

\* Asset.get_book_value
get_book_value(assts, deps, asset_id, as_of_date) ==
    assts[asset_id].acquisition_cost
    - get_accumulated_depreciation(deps, asset_id, as_of_date)

\* DepreciationService.calculate_depreciation: min(monthly, max_depreciation)
\* quantized, monthly being depreciable_amount / useful_life_months
calculate_depreciation(assts, deps, asset_id, period_date) ==
    LET asset == assts[asset_id]
        book_value == get_book_value(assts, deps, asset_id, period_date)
        depreciable_amount == asset.acquisition_cost - asset.residual_value
        max_depreciation == book_value - asset.residual_value
    IN  IF ~asset.is_active THEN 0
        ELSE IF book_value <= asset.residual_value THEN 0
        ELSE IF asset.useful_life_months > 0
                /\ depreciable_amount <= max_depreciation * asset.useful_life_months
        THEN quantize(depreciable_amount, asset.useful_life_months)
        ELSE IF asset.useful_life_months > 0 THEN max_depreciation
        ELSE 0

\* what create_depreciation_entry and the loop around it leave behind
Depreciated(deps, txs, call, error) ==
    [asset_depreciations |-> deps, transactions |-> txs, call |-> call,
     error |-> error]

next_depreciation_id(deps) ==
    IF deps = {} THEN 1 ELSE Max({p.id : p \in deps}) + 1

\* DepreciationService.create_depreciation_entry with amount=None
create_depreciation_entry(assts, deps, txs, asset_id, fiscal_year_id, period_date, period_type) ==
    LET asset == assts[asset_id]
        amount == calculate_depreciation(assts, deps, asset_id, period_date)
        out == create_transaction(txs, asset.company_id, fiscal_year_id, period_date,
                   <<Line(asset.depreciation_account_id, amount, 0),
                     Line(asset.accumulated_account_id, 0, amount)>>)
        depreciation == [id |-> next_depreciation_id(deps), asset_id |-> asset_id,
                         transaction_id |-> out.call.tx_id,
                         depreciation_date |-> period_date, amount |-> amount,
                         period_type |-> period_type]
    IN  IF amount <= 0
        THEN Depreciated(deps, txs, NoCall, "")
        ELSE IF asset.depreciation_account_id = 0 \/ asset.accumulated_account_id = 0
        THEN Depreciated(deps, txs, NoCall, "ValueError")
        ELSE IF ~out.call.ok
        THEN Depreciated(deps, txs, out.call, out.call.error)
        ELSE Depreciated(deps \cup {depreciation}, out.transactions, out.call, "")

\* the body of the loop of run_period_depreciation without the lookup of an
\* existing depreciation of the period
depreciate_asset_unchecked(assts, deps, txs, asset_id, fiscal_year_id, period_date, period_type) ==
    IF assts[asset_id].acquisition_date > period_date
    THEN Depreciated(deps, txs, NoCall, "")
    ELSE create_depreciation_entry(assts, deps, txs, asset_id, fiscal_year_id,
             period_date, period_type)

\* the body of the loop of run_period_depreciation for one asset
depreciate_asset(assts, deps, txs, asset_id, fiscal_year_id, period_date, period_type) ==
    LET existing == {p \in DepreciationsOf(deps, asset_id) :
                        /\ p.depreciation_date = period_date
                        /\ p.period_type = period_type}
    IN  IF assts[asset_id].acquisition_date > period_date
        THEN Depreciated(deps, txs, NoCall, "")
        ELSE IF existing # {}
        THEN Depreciated(deps, txs, NoCall, "")
        ELSE create_depreciation_entry(assts, deps, txs, asset_id, fiscal_year_id,
                 period_date, period_type)

\* DepreciationService.get_assets(company_id, active_only=True)
get_assets(assts, company_id) ==
    {a \in Ids(assts) : assts[a].company_id = company_id /\ assts[a].is_active}

\* the loop of run_period_depreciation over the assets still to do, latest
\* acquisition first; an error of one asset is logged and the loop goes on
RECURSIVE depreciation_loop(_, _, _, _, _, _)
depreciation_loop(assts, st, todo, fiscal_year_id, period_date, period_type) ==
    IF todo = {} THEN st
    ELSE LET a == CHOOSE x \in todo : \A y \in todo :
                      \/ assts[x].acquisition_date > assts[y].acquisition_date
                      \/ assts[x].acquisition_date = assts[y].acquisition_date /\ x <= y
         IN  CHOOSE after \in
                 {depreciation_loop(assts,
                      IF out.call.ok
                      THEN out
                      ELSE Depreciated(st.asset_depreciations, st.transactions,
                               st.call, ""),
                      todo \ {a}, fiscal_year_id, period_date, period_type) :
                    out \in {depreciate_asset(assts, st.asset_depreciations,
                                st.transactions, a, fiscal_year_id, period_date,
                                period_type)}} : TRUE

\* DepreciationService.run_period_depreciation
run_period_depreciation_outcome(assts, deps, txs, company_id, fiscal_year_id, period_date, period_type) ==
    depreciation_loop(assts, Depreciated(deps, txs, NoCall, ""),
        get_assets(assts, company_id), fiscal_year_id, period_date, period_type)

-----------------------------------------------------------------------------
(* Template engine *)

\* a TemplateLineItem: a fixed amount, a percentage of the total, or the
\* remainder (None for a column that is not set)
TemplateLine(account_id, is_debit, fixed, percentage, is_remainder) ==
    [account_id |-> account_id, is_debit |-> is_debit, amount_fixed |-> fixed,
     amount_percentage |-> percentage, is_remainder |-> is_remainder]

\* TemplateLineItem.calculate_amount
calculate_amount(line, total_amount) ==
    IF line.amount_fixed # None THEN line.amount_fixed
    ELSE IF line.amount_percentage # None
    THEN quantize(total_amount * line.amount_percentage, 100)
    ELSE 0

\* the posting lines apply_template builds from the lines that are not the
\* remainder, in sort order
RECURSIVE computed_lines(_, _)
computed_lines(template_lines, total_amount) ==
    IF template_lines = <<>> THEN <<>>
    ELSE LET line == Head(template_lines)
             amount == calculate_amount(line, total_amount)
             rest == computed_lines(Tail(template_lines), total_amount)
         IN  IF line.is_remainder THEN rest
             ELSE IF line.is_debit
             THEN <<Line(line.account_id, amount, 0)>> \o rest
             ELSE <<Line(line.account_id, 0, amount)>> \o rest

\* the posting line of the remainder line, kept on the side the line declares
remainder_posting(remainder_line, lines, total_amount) ==
    LET running_total_debit == total_debit(lines)
        running_total_credit == total_credit(lines)
        diff == running_total_debit - running_total_credit
    IN  IF remainder_line.is_debit
        THEN Line(remainder_line.account_id,
                 IF diff < 0 THEN abs(diff) ELSE total_amount - running_total_debit, 0)
        ELSE Line(remainder_line.account_id, 0,
                 IF diff > 0 THEN abs(diff) ELSE total_amount - running_total_credit)

\* the lines apply_template passes to create_transaction
template_postings(template_lines, total_amount) ==
    LET lines == computed_lines(template_lines, total_amount)
        remainders == {i \in 1..Len(template_lines) : template_lines[i].is_remainder}
    IN  IF remainders = {} THEN lines
        ELSE Append(lines,
                 remainder_posting(template_lines[Max(remainders)], lines, total_amount))

\* TemplateService.apply_template: the call, and the tables after it
apply_template_outcome(tmpls, txs, template_id, fiscal_year_id, transaction_date, total_amount) ==
    LET template == tmpls[template_id]
        out == create_transaction(txs, template.company_id, fiscal_year_id,
                   transaction_date, template_postings(template.lines, total_amount))
    IN  [call |-> out.call,
         transactions |-> out.transactions,
         templates |-> IF out.call.ok
                       THEN [tmpls EXCEPT ![template_id].usage_count = @ + 1]
                       ELSE tmpls]

-----------------------------------------------------------------------------
(* SIE4 codec *)

\* a date written as YYYYMMDD; the dates of the model are days of a year of
\* this century
format_date(d) == [century |-> 20, rest |-> d]

\* the first token of a line that matches 20dddddd, the default when none does
parse_date(text, default) == IF text.century = 20 THEN text.rest ELSE default

\* an amount written with its sign, a decimal point and two decimals
format_amount(x) == [sign |-> IF x < 0 THEN "-" ELSE "", digits |-> abs(x)]

\* Decimal(amount_str)
parse_decimal(text) == IF text.sign = "-" THEN 0 - text.digits ELSE text.digits

\* the elements of a finite set of integers in ascending order
RECURSIVE Ascending(_)
Ascending(S) ==
    IF S = {} THEN <<>>
    ELSE LET m == CHOOSE x \in S : \A y \in S : x <= y
         IN  <<m>> \o Ascending(S \ {m})

\* the number of the account a line is posted on
number_of_account(accs, account_id) ==
    IF account_id \in Ids(accs) THEN accs[account_id].number ELSE 0

\* the writer: one #KONTO line per account
RECURSIVE emit_accounts(_, _)
emit_accounts(accs, ids) ==
    IF ids = <<>> THEN <<>>
    ELSE <<[tag |-> "#KONTO", number |-> accs[Head(ids)].number,
            name |-> accs[Head(ids)].name]>>
         \o emit_accounts(accs, Tail(ids))

\* the writer: one #IB line per account that has an opening balance
RECURSIVE emit_opening_balances(_, _)
emit_opening_balances(accs, ids) ==
    IF ids = <<>> THEN <<>>
    ELSE (IF accs[Head(ids)].opening_balance # 0
          THEN <<[tag |-> "#IB", number |-> accs[Head(ids)].number,
                  amount |-> format_amount(accs[Head(ids)].opening_balance)]>>
          ELSE <<>>)
         \o emit_opening_balances(accs, Tail(ids))

\* the writer: one #TRANS line per verification line, the sign giving the side
RECURSIVE emit_lines(_, _)
emit_lines(accs, lines) ==
    IF lines = <<>> THEN <<>>
    ELSE <<[tag |-> "#TRANS",
            number |-> number_of_account(accs, Head(lines).account_id),
            amount |-> format_amount(Head(lines).debit - Head(lines).credit)]>>
         \o emit_lines(accs, Tail(lines))

\* the writer: the #VER header and the block of its lines
RECURSIVE emit_verifications(_, _, _)
emit_verifications(accs, txs, ids) ==
    IF ids = <<>> THEN <<>>
    ELSE LET t == TxById(txs, Head(ids))
         IN  <<[tag |-> "#VER", number |-> t.verification_number,
                date |-> format_date(t.transaction_date)],
               [tag |-> "{"]>>
             \o emit_lines(accs, t.lines)
             \o <<[tag |-> "}"]>>
             \o emit_verifications(accs, txs, Tail(ids))

\* the writer: the file of a company and one of its fiscal years
emit(accs, fys, txs, company_id, fiscal_year_id) ==
    LET ids == Ascending(get_accounts(accs, company_id))
    IN  <<[tag |-> "#RAR", start |-> format_date(fys[fiscal_year_id].start_date),
           end |-> format_date(fys[fiscal_year_id].end_date)]>>
        \o emit_accounts(accs, ids)
        \o emit_opening_balances(accs, ids)
        \o emit_verifications(accs, txs,
               Ascending({t.id : t \in {u \in txs :
                              /\ u.company_id = company_id
                              /\ u.fiscal_year_id = fiscal_year_id}}))

\* date.today(), the date of a #VER line that carries none
today == MaxDate

\* SIEData()
NoData ==
    [fiscal_year_start |-> NoDate, fiscal_year_end |-> NoDate, accounts |-> <<>>,
     opening_balances |-> <<>>, transactions |-> <<>>]

NoVerification == [verification_number |-> 0, date |-> NoDate, lines |-> <<>>]

\* the parser before the first line: no verification is open
ParserStart ==
    [data |-> NoData, open |-> FALSE, current_verification |-> NoVerification]

\* SIEParser._parse_transaction_line: the line the amount stands for
parse_transaction_line(line) ==
    LET amount == parse_decimal(line.amount)
    IN  IF amount >= 0
        THEN [account_number |-> line.number, debit |-> amount, credit |-> 0]
        ELSE [account_number |-> line.number, debit |-> 0, credit |-> abs(amount)]

\* self.data.opening_balances[account_number] = balance
put(dict, key, value) ==
    [k \in DOMAIN dict \cup {key} |-> IF k = key THEN value ELSE dict[k]]

\* the body of the loop of SIEParser.parse for one line
parse_line(st, line) ==
    IF line.tag = "}"
    THEN [data |-> IF st.open /\ st.current_verification.lines # <<>>
                   THEN [st.data EXCEPT !.transactions =
                            Append(@, st.current_verification)]
                   ELSE st.data,
          open |-> FALSE, current_verification |-> NoVerification]
    ELSE IF line.tag = "#RAR"
    THEN [st EXCEPT !.data.fiscal_year_start = parse_date(line.start, NoDate),
                    !.data.fiscal_year_end = parse_date(line.end, NoDate)]
    ELSE IF line.tag = "#KONTO"
    THEN [st EXCEPT !.data.accounts =
             Append(@, [number |-> line.number, name |-> line.name])]
    ELSE IF line.tag = "#IB"
    THEN [st EXCEPT !.data.opening_balances =
             put(@, line.number, parse_decimal(line.amount))]
    ELSE IF line.tag = "#VER"
    THEN [st EXCEPT !.open = TRUE,
                    !.current_verification =
                        [verification_number |-> line.number,
                         date |-> parse_date(line.date, today),
                         lines |-> <<>>]]
    ELSE IF line.tag = "#TRANS" /\ st.open
    THEN [st EXCEPT !.current_verification.lines =
             Append(@, parse_transaction_line(line))]
    ELSE st

\* the loop of SIEParser.parse over the lines of the file
RECURSIVE parse_lines(_, _)
parse_lines(content, st) ==
    IF content = <<>> THEN st
    ELSE CHOOSE done \in
             {parse_lines(Tail(content), next) :
                next \in {parse_line(st, Head(content))}} : TRUE

\* SIEParser.parse
parse(content) ==
    CHOOSE data \in
        {IF st.open /\ st.current_verification.lines # <<>>
         THEN [st.data EXCEPT !.transactions = Append(@, st.current_verification)]
         ELSE st.data :
            st \in {parse_lines(content, ParserStart)}} : TRUE

-----------------------------------------------------------------------------
(* The store after construction and the inputs of the handlers *)

Companies == {1, 2}

UnknownAccountId == 99      \* an id no account row ever gets

Account(company_id, number, name) ==
    [company_id |-> company_id, number |-> number, name |-> name,
     opening_balance |-> 0]

\* company 1 with a small chart and two consecutive fiscal years,
\* company 2 with a bank and a sales account and no fiscal year yet; company 1
\* also has the two accounts the depreciation of a tangible asset posts on
InitAccounts ==
    <<Account(1, 1930, "Bank"), Account(1, 3010, "Sales"),
      Account(1, 2098, "Retained"), Account(1, 2099, "Result"),
      Account(2, 1930, "Bank"), Account(2, 3010, "Sales"),
      Account(1, 7832, "Depreciation"), Account(1, 1229, "Accumulated")>>

InitFiscalYears ==
    <<[company_id |-> 1, start_date |-> 1, end_date |-> 2, is_closed |-> FALSE],
      [company_id |-> 1, start_date |-> 3, end_date |-> 3, is_closed |-> FALSE]>>

\* parsed SIE files (SIEData)
SieLine(account_number, amount) ==
    IF amount >= 0
    THEN [account_number |-> account_number, debit |-> amount, credit |-> 0]
    ELSE [account_number |-> account_number, debit |-> 0, credit |-> abs(amount)]

FileA ==
    [fiscal_year_start |-> 1, fiscal_year_end |-> 2,
     accounts |-> <<[number |-> 1930, name |-> "Foretagskonto"],
                    [number |-> 2410, name |-> "Leverantorsskulder"]>>,
     opening_balances |-> <<[number |-> 1930, balance |-> 1]>>,
     transactions |->
        <<[verification_number |-> 1, date |-> 1,
           lines |-> <<SieLine(1930, 1), SieLine(3010, 0 - 1)>>]>>]

FileB ==
    [fiscal_year_start |-> 1, fiscal_year_end |-> 2,
     accounts |-> <<>>,
     opening_balances |-> <<>>,
     transactions |->
        <<[verification_number |-> 2, date |-> 2,
           lines |-> <<SieLine(1930, 1), SieLine(7777, 0 - 1)>>],
          [verification_number |-> 3, date |-> 2,
           lines |-> <<SieLine(7777, 1), SieLine(7777, 0 - 1)>>]>>]

\* a file that carries an opening balance and no verification, and names one
\* account in two #KONTO records
FileC ==
    [fiscal_year_start |-> 1, fiscal_year_end |-> 2,
     accounts |-> <<[number |-> 6110, name |-> "Kontorsmateriel"],
                    [number |-> 6110, name |-> "Kontorsmaterial"]>>,
     opening_balances |-> <<[number |-> 1930, balance |-> 1]>>,
     transactions |-> <<>>]

SieFiles == {FileA, FileB, FileC}

\* the two-line posting a caller builds: debit one account, credit another
Posting(debit_account, x, credit_account, y) ==
    <<Line(debit_account, x, 0), Line(credit_account, 0, y)>>

\* line lists passed to create_transaction for a company: postings between the
\* company's bank and sales accounts with any pair of amounts, postings that
\* name another company's account or an unknown id, and a line with both sides
LineInputs(company_id) ==
    LET bank == get_account_by_number(accounts, company_id, 1930)
        sales == get_account_by_number(accounts, company_id, 3010)
        foreign == get_account_by_number(accounts, 3 - company_id, 1930)
    IN  {Posting(bank, x, sales, y) : x \in Amounts, y \in Amounts}
        \cup {Posting(sales, x, bank, x) : x \in 1..MaxAmount}
        \cup {Posting(foreign, x, bank, x) : x \in 1..MaxAmount}
        \cup {Posting(UnknownAccountId, x, bank, x) : x \in 1..MaxAmount}
        \cup {<<Line(bank, x, x)>> : x \in 1..MaxAmount}

InputsFor(company_id) ==
    {[company_id |-> company_id, fiscal_year_id |-> f, transaction_date |-> d,
      lines |-> l] :
        f \in Ids(fiscal_years), d \in Dates, l \in LineInputs(company_id)}

CreateInputs == UNION {InputsFor(c) : c \in Companies}

\* callers name a fiscal year of the company they post for
ManualEntryInputs ==
    {in \in CreateInputs : fiscal_years[in.fiscal_year_id].company_id = in.company_id}

\* what the sessions that run at the same time post: entries dated the first
\* day of their fiscal year
ConcurrentInputs ==
    {in \in ManualEntryInputs :
        in.transaction_date = fiscal_years[in.fiscal_year_id].start_date}

NoHistory == [deleted |-> {}, imported |-> {}, issued |-> {}, ops |-> 0, amends |-> 0]

\* highest verification number create_transaction has handed out in the year
HighWater(h, fiscal_year_id) ==
    LET nums == {p[2] : p \in {q \in h.issued : q[1] = fiscal_year_id}}
    IN  IF nums = {} THEN 0 ELSE Max(nums)

Issue(h, call) ==
    IF call.ok
    THEN [h EXCEPT !.issued =
            {q \in h.issued : q[1] # call.fiscal_year_id}
            \cup {<<call.fiscal_year_id,
                    IF call.verification_number > HighWater(h, call.fiscal_year_id)
                    THEN call.verification_number
                    ELSE HighWater(h, call.fiscal_year_id)>>}]
    ELSE h

Count(h) == [h EXCEPT !.ops = @ + 1]
CountAmend(h) == [h EXCEPT !.ops = @ + 1, !.amends = @ + 1]

Report(op, call) ==
    [op |-> op, called |-> call.called, ok |-> call.ok, error |-> call.error,
     tx_id |-> call.tx_id]

Failed(op, error) == [Report(op, NoCall) EXCEPT !.error = error]
Done(op) == [Report(op, NoCall) EXCEPT !.ok = TRUE]

\* the run and the store stay within the bounds of the model
Fits(txs) ==
    /\ hist.ops < MaxOps
    /\ Cardinality(txs) <= MaxTx
    /\ \A t \in txs : t.id <= MaxRowId /\ t.verification_number <= MaxVer

\* a call into a scheduler or the template engine stays within the bounds; the
\* number of verifications it may write is bounded by its definitions
FitsRun(txs) ==
    /\ hist.ops < MaxOps
    /\ \A t \in txs : t.id <= MaxRowId /\ t.verification_number <= MaxVer

\* the sessions that post at the same time, and a session that is not in a call
Sessions == 1..MaxSessions

Idle ==
    [pc |-> "idle", company_id |-> 0, fiscal_year_id |-> 0, transaction_date |-> 0,
     lines |-> <<>>, ver_number |-> 0, id |-> 0]

\* the create_transaction call a session is in, as the caller sees it
CallOf(session) ==
    [NoCall EXCEPT !.called = TRUE, !.company_id = session.company_id,
                   !.fiscal_year_id = session.fiscal_year_id,
                   !.transaction_date = session.transaction_date,
                   !.lines = session.lines]

\* a session holds the write lock of the database file from its first INSERT
\* to the end of its transaction
write_locked(s) == \E o \in Sessions \ {s} : sessions[o].pc = "flushed"

Init ==
    /\ accounts = InitAccounts
    /\ fiscal_years = InitFiscalYears
    /\ transactions = {}
    /\ accruals = <<>>
    /\ accrual_entries = {}
    /\ assets = <<>>
    /\ asset_depreciations = {}
    /\ templates = <<>>
    /\ last = Report("init", NoCall)
    /\ hist = NoHistory
    /\ sessions = [s \in Sessions |-> Idle]
    /\ pending = <<>>

-----------------------------------------------------------------------------
(* Handlers *)

\* a caller (the entry form, a test) calls create_transaction
manual_entry ==
    \E in \in ManualEntryInputs :
        LET out == create_transaction(transactions, in.company_id,
                       in.fiscal_year_id, in.transaction_date, in.lines)
        IN  /\ Fits(out.transactions)
            /\ transactions' = out.transactions
            /\ last' = Report("create_transaction", out.call)
            /\ hist' = Count(Issue(hist, out.call))
            /\ UNCHANGED <<accounts, fiscal_years, rule_postings, session_state>>

\* create_transaction in session s up to the number: the two validations, then
\* get_next_verification_number, a SELECT that sees the committed rows only
\* and takes no lock
allocate_number(s) ==
    \E in \in ConcurrentInputs :
        /\ sessions[s].pc = "idle"
        /\ Fits(transactions)
        /\ IF total_debit(in.lines) # total_credit(in.lines)
              \/ total_debit(in.lines) = 0
           THEN /\ last' = Report("create_transaction",
                               [CallOf([Idle EXCEPT
                                   !.company_id = in.company_id,
                                   !.fiscal_year_id = in.fiscal_year_id,
                                   !.transaction_date = in.transaction_date,
                                   !.lines = in.lines])
                                EXCEPT !.error = "ValueError"])
                /\ UNCHANGED sessions
           ELSE /\ sessions' = [sessions EXCEPT ![s] =
                       [pc |-> "numbered",
                        company_id |-> in.company_id,
                        fiscal_year_id |-> in.fiscal_year_id,
                        transaction_date |-> in.transaction_date,
                        lines |-> in.lines,
                        ver_number |-> get_next_verification_number(transactions,
                                           in.company_id, in.fiscal_year_id),
                        id |-> 0]]
                /\ UNCHANGED last
        /\ hist' = Count(hist)
        /\ UNCHANGED <<accounts, fiscal_years, transactions, rule_postings, pending>>

\* db.add(transaction); db.flush() in session s: the INSERT starts the write
\* transaction and gets the row id; it waits while another session writes
flush_transaction(s) ==
    /\ sessions[s].pc = "numbered"
    /\ ~write_locked(s)
    /\ sessions' = [sessions EXCEPT ![s].pc = "flushed",
                                    ![s].id = next_rowid(transactions)]
    /\ UNCHANGED <<accounts, fiscal_years, transactions, rule_postings, last, hist,
                   pending>>

\* the wait of the INSERT for the write lock runs into the busy timeout
flush_timeout(s) ==
    /\ sessions[s].pc = "numbered"
    /\ write_locked(s)
    /\ sessions' = [sessions EXCEPT ![s] = Idle]
    /\ last' = Report("create_transaction",
                   [CallOf(sessions[s]) EXCEPT !.error = "OperationalError"])
    /\ UNCHANGED <<accounts, fiscal_years, transactions, rule_postings, hist, pending>>

\* the lines and db.commit() in session s: the CHECK constraint fails the
\* commit, or the row is written with the number the session read
commit_transaction(s) ==
    /\ sessions[s].pc = "flushed"
    /\ sessions' = [sessions EXCEPT ![s] = Idle]
    /\ \E call \in {CallOf(sessions[s])} :
        IF \E i \in 1..Len(call.lines) : ~check_debit_or_credit(call.lines[i])
        THEN /\ last' = Report("create_transaction",
                            [call EXCEPT !.error = "IntegrityError"])
             /\ UNCHANGED <<transactions, hist>>
        ELSE \E done \in {[call EXCEPT !.ok = TRUE, !.tx_id = sessions[s].id,
                              !.verification_number = sessions[s].ver_number]} :
             /\ transactions' = transactions \cup
                    {[id |-> sessions[s].id,
                      company_id |-> call.company_id,
                      fiscal_year_id |-> call.fiscal_year_id,
                      verification_number |-> sessions[s].ver_number,
                      transaction_date |-> call.transaction_date,
                      lines |-> call.lines]}
             /\ last' = Report("create_transaction", done)
             /\ hist' = Issue(hist, done)
    /\ UNCHANGED <<accounts, fiscal_years, rule_postings, pending>>

\* AccountingService.delete_transaction: the lines go with the verification
delete_transaction ==
    \E transaction_id \in TxIds(transactions) \cup {next_rowid(transactions)} :
        /\ Fits(transactions)
        /\ IF transaction_id \in TxIds(transactions)
           THEN LET transaction == TxById(transactions, transaction_id)
                IN  /\ transactions' = transactions \ {transaction}
                    /\ hist' = Count([hist EXCEPT !.deleted =
                                    @ \cup {transaction.fiscal_year_id}])
                    /\ last' = Done("delete_transaction")
           ELSE /\ UNCHANGED transactions
                /\ hist' = Count(hist)
                /\ last' = Failed("delete_transaction", "False")
        /\ UNCHANGED <<accounts, fiscal_years, rule_postings, session_state>>

\* SIEImporter.import_file into an existing company
import_file ==
    \E data \in SieFiles, company_id \in Companies :
        LET out == import_file_outcome(accounts, fiscal_years, transactions,
                       data, company_id)
        IN  /\ Fits(out.transactions)
            /\ accounts' = out.accounts
            /\ fiscal_years' = out.fiscal_years
            /\ transactions' = out.transactions
            /\ hist' = Count([hist EXCEPT !.imported = @ \cup {out.fiscal_year_id}])
            /\ last' = Done("import_file")
            /\ UNCHANGED <<rule_postings, session_state>>

\* ClosingService.close_year
close_year ==
    \E fiscal_year_id \in Ids(fiscal_years), with_disposition \in BOOLEAN :
        LET out == close_year_outcome(accounts, fiscal_years, transactions,
                       fiscal_years[fiscal_year_id].company_id, fiscal_year_id,
                       with_disposition)
        IN  /\ Fits(out.transactions)
            /\ transactions' = out.transactions
            /\ fiscal_years' = out.fiscal_years
            /\ hist' = Count(Issue(hist, out.call))
            /\ last' = Report("close_year", out.call)
            /\ UNCHANGED <<accounts, rule_postings, session_state>>

\* ClosingService.create_opening_balances, called for a company and one of its
\* fiscal years or for a fiscal year id that does not exist
create_opening_balances ==
    \E company_id \in Companies,
       source_fiscal_year_id \in Ids(fiscal_years) \cup {Len(fiscal_years) + 1} :
        /\ Fits(transactions)
        /\ IF source_fiscal_year_id \notin Ids(fiscal_years)
           THEN /\ UNCHANGED accounts
                /\ last' = Failed("create_opening_balances", "ValueError")
           ELSE /\ fiscal_years[source_fiscal_year_id].company_id = company_id
                /\ accounts' = create_opening_balances_outcome(accounts, fiscal_years,
                                   transactions, company_id, source_fiscal_year_id)
                /\ last' = Done("create_opening_balances")
        /\ hist' = Count(hist)
        /\ UNCHANGED <<fiscal_years, transactions, rule_postings, session_state>>

\* the kinds of accrual the form offers here: one that debits the target and
\* one that debits the source
AccrualTypes == {"PREPAID_EXPENSE", "ACCRUED_INCOME"}

\* the verification numbers handed out between two states of the table
IssueAll(h, before, after) ==
    [h EXCEPT !.issued =
        {<<f, Max({HighWater(h, f)} \cup
                  {t.verification_number : t \in
                      {u \in after \ before : u.fiscal_year_id = f}})>> :
            f \in {q[1] : q \in h.issued} \cup {t.fiscal_year_id : t \in after \ before}}]

\* AccrualService.create_accrual, called by the accrual form for a company and
\* one of its fiscal years
create_accrual ==
    \E f \in Ids(fiscal_years), accrual_type \in AccrualTypes,
       total_amount \in 1..MaxTotal, periods \in 1..MaxPeriods,
       auto_generate \in BOOLEAN :
        /\ FitsRun(transactions)
        /\ Len(accruals) < MaxDefs
        /\ accruals' = Append(accruals,
              [company_id |-> fiscal_years[f].company_id,
               fiscal_year_id |-> f,
               accrual_type |-> accrual_type,
               total_amount |-> total_amount,
               periods |-> periods,
               amount_per_period |-> quantize(total_amount, periods),
               start_date |-> fiscal_years[f].start_date,
               source_account_id |->
                   get_account_by_number(accounts, fiscal_years[f].company_id, 1930),
               target_account_id |->
                   get_account_by_number(accounts, fiscal_years[f].company_id, 3010),
               is_active |-> TRUE,
               auto_generate |-> auto_generate])
        /\ accrual_entries' = flush_entries(accrual_entries, pending)
        /\ pending' = <<>>
        /\ last' = Done("create_accrual")
        /\ hist' = Count(hist)
        /\ UNCHANGED <<accounts, fiscal_years, transactions, assets,
                       asset_depreciations, templates, sessions>>

\* AccrualService.run_auto_accruals
run_auto_accruals ==
    \E company_id \in Companies, up_to_date \in Dates :
        \E out \in {run_auto_accruals_outcome(accruals, accrual_entries,
                       transactions, company_id, up_to_date)} :
            /\ FitsRun(out.st.transactions)
            /\ accruals' = out.accruals
            /\ accrual_entries' = out.st.accrual_entries
            /\ transactions' = out.st.transactions
            /\ last' = IF out.st.call.called
                       THEN Report("run_auto_accruals", out.st.call)
                       ELSE Done("run_auto_accruals")
            /\ hist' = Count(IssueAll(hist, transactions, out.st.transactions))
            /\ UNCHANGED <<accounts, fiscal_years, assets, asset_depreciations, templates, session_state>>

\* AccrualService.generate_entry called directly for a period of an accrual,
\* with the date of that period
generate_entry ==
    \E accrual_id \in Ids(accruals), period_number \in 1..MaxPeriods :
        \E out \in {generate_entry_outcome(accruals, accrual_entries, transactions,
                       accrual_id,
                       accruals[accrual_id].start_date
                       + (period_number - 1) * period_step,
                       period_number)} :
            /\ period_number <= accruals[accrual_id].periods
            /\ FitsRun(out.transactions)
            /\ accrual_entries' = out.accrual_entries
            /\ transactions' = out.transactions
            /\ last' = IF out.call.called
                       THEN Report("generate_entry", out.call)
                       ELSE Failed("generate_entry", "None")
            /\ hist' = Count(IssueAll(hist, transactions, out.transactions))
            /\ UNCHANGED <<accounts, fiscal_years, accruals, assets,
                           asset_depreciations, templates, session_state>>

\* AccrualService.deactivate_accrual
deactivate_accrual ==
    \E accrual_id \in 1..(Len(accruals) + 1) :
        /\ FitsRun(transactions)
        /\ IF accrual_id \in Ids(accruals)
           THEN /\ accruals' = [accruals EXCEPT ![accrual_id].is_active = FALSE]
                /\ accrual_entries' = flush_entries(accrual_entries, pending)
                /\ pending' = <<>>
                /\ last' = Done("deactivate_accrual")
           ELSE /\ UNCHANGED <<accruals, accrual_entries, pending>>
                /\ last' = Failed("deactivate_accrual", "False")
        /\ hist' = Count(hist)
        /\ UNCHANGED <<accounts, fiscal_years, transactions, assets,
                       asset_depreciations, templates, sessions>>

\* AccrualService.generate_entry called for a period of an accrual by a caller
\* that handles the error and goes on with the same session
generate_entry_kept_session ==
    \E accrual_id \in Ids(accruals), period_number \in 1..MaxPeriods :
        \E out \in {generate_entry_on_session(accruals, accrual_entries,
                       transactions, pending, accrual_id,
                       accruals[accrual_id].start_date
                       + (period_number - 1) * period_step,
                       period_number)} :
            /\ period_number <= accruals[accrual_id].periods
            /\ FitsRun(out.transactions)
            /\ accrual_entries' = out.accrual_entries
            /\ transactions' = out.transactions
            /\ pending' = out.pending
            /\ last' = IF out.call.called
                       THEN Report("generate_entry", out.call)
                       ELSE Failed("generate_entry", "None")
            /\ hist' = Count(IssueAll(hist, transactions, out.transactions))
            /\ UNCHANGED <<accounts, fiscal_years, accruals, assets,
                           asset_depreciations, templates, sessions>>

\* the caller closes the session: what was added and not committed is dropped
close_session ==
    /\ FitsRun(transactions)
    /\ pending # <<>>
    /\ pending' = <<>>
    /\ last' = Done("close")
    /\ hist' = Count(hist)
    /\ UNCHANGED <<accounts, fiscal_years, transactions, rule_postings, sessions>>

\* DEFAULT_ACCOUNTS of the asset types the form offers here
DefaultAccounts(asset_type) ==
    IF asset_type = "TANGIBLE"
    THEN [depreciation |-> 7832, accumulated |-> 1229]
    ELSE [depreciation |-> 8170, accumulated |-> 0]

PeriodTypes == {"monthly", "annual"}

\* DepreciationService.create_asset with the default accounts of the type, for
\* an asset acquired on the first or on the last day of the calendar
create_asset ==
    \E company_id \in Companies, asset_type \in {"TANGIBLE", "FINANCIAL"},
       acquisition_date \in {1, MaxDate}, acquisition_cost \in 1..MaxTotal,
       useful_life_months \in 1..MaxPeriods, residual_value \in 0..1 :
        /\ FitsRun(transactions)
        /\ Len(assets) < MaxDefs
        /\ \E f \in Ids(fiscal_years) : fiscal_years[f].company_id = company_id
        /\ assets' = Append(assets,
              [company_id |-> company_id,
               asset_type |-> asset_type,
               depreciation_account_id |->
                   get_account_by_number(accounts, company_id,
                       DefaultAccounts(asset_type).depreciation),
               accumulated_account_id |->
                   get_account_by_number(accounts, company_id,
                       DefaultAccounts(asset_type).accumulated),
               acquisition_date |-> acquisition_date,
               acquisition_cost |-> acquisition_cost,
               residual_value |-> residual_value,
               useful_life_months |-> useful_life_months,
               is_active |-> TRUE])
        /\ last' = Done("create_asset")
        /\ hist' = Count(hist)
        /\ UNCHANGED <<accounts, fiscal_years, transactions, accruals,
                       accrual_entries, asset_depreciations, templates, session_state>>

\* DepreciationService.run_period_depreciation, called by the depreciation
\* page for a company and one of its fiscal years
run_period_depreciation ==
    \E f \in Ids(fiscal_years), period_date \in Dates, period_type \in PeriodTypes :
        \E out \in {run_period_depreciation_outcome(assets, asset_depreciations,
                       transactions, fiscal_years[f].company_id, f,
                       period_date, period_type)} :
            /\ FitsRun(out.transactions)
            /\ asset_depreciations' = out.asset_depreciations
            /\ transactions' = out.transactions
            /\ last' = [op |-> "run_period_depreciation",
                        called |-> out.call.called, ok |-> TRUE, error |-> "",
                        tx_id |-> out.call.tx_id,
                        company_id |-> fiscal_years[f].company_id,
                        period_date |-> period_date, period_type |-> period_type]
            /\ hist' = Count(IssueAll(hist, transactions, out.transactions))
            /\ UNCHANGED <<accounts, fiscal_years, accruals, accrual_entries, assets,
                           templates, session_state>>

\* DepreciationService.dispose_asset
dispose_asset ==
    \E asset_id \in Ids(assets) :
        /\ FitsRun(transactions)
        /\ assets' = [assets EXCEPT ![asset_id].is_active = FALSE]
        /\ last' = Done("dispose_asset")
        /\ hist' = Count(hist)
        /\ UNCHANGED <<accounts, fiscal_years, transactions, accruals,
                       accrual_entries, asset_depreciations, templates, session_state>>

\* the lines a template form offers for a company: fixed amounts and
\* percentages on either side of the bank and the sales account
TemplateLineInputs(company_id) ==
    LET bank == get_account_by_number(accounts, company_id, 1930)
        sales == get_account_by_number(accounts, company_id, 3010)
    IN  {TemplateLine(bank, TRUE, m, None, FALSE) : m \in 1..2}
        \cup {TemplateLine(sales, FALSE, m, None, FALSE) : m \in 1..2}
        \cup {TemplateLine(bank, TRUE, None, p, FALSE) : p \in {50, 100}}
        \cup {TemplateLine(sales, FALSE, None, p, FALSE) : p \in {50, 100}}

RemainderInputs(company_id) ==
    {TemplateLine(get_account_by_number(accounts, company_id, 2098),
         side, None, None, TRUE) : side \in BOOLEAN}

\* the line lists of the templates a company defines: one or two computed
\* lines, with or without a remainder line after them, and lists of two
\* remainder lines
TemplateInputs(company_id) ==
    LET computed == {<<l>> : l \in TemplateLineInputs(company_id)}
                    \cup {<<l, m>> : l \in TemplateLineInputs(company_id),
                                     m \in TemplateLineInputs(company_id)}
    IN  computed
        \cup {Append(ls, r) : ls \in computed, r \in RemainderInputs(company_id)}
        \cup {<<r, s>> : r \in RemainderInputs(company_id),
                          s \in RemainderInputs(company_id)}

\* TemplateService.create_template
create_template ==
    \E f \in Ids(fiscal_years) :
        \E lines \in TemplateInputs(fiscal_years[f].company_id) :
            /\ FitsRun(transactions)
            /\ Len(templates) < MaxDefs
            /\ templates' = Append(templates,
                  [company_id |-> fiscal_years[f].company_id, lines |-> lines,
                   is_active |-> TRUE, usage_count |-> 0])
            /\ last' = Done("create_template")
            /\ hist' = Count(hist)
            /\ UNCHANGED <<accounts, fiscal_years, transactions, accruals,
                           accrual_entries, assets, asset_depreciations, session_state>>

\* TemplateService.apply_template, called by the template page for a template
\* of the company and one of its fiscal years
apply_template ==
    \E template_id \in Ids(templates), f \in Ids(fiscal_years),
       total_amount \in 1..MaxTotal :
        \E out \in {apply_template_outcome(templates, transactions, template_id, f,
                       fiscal_years[f].start_date, total_amount)} :
            /\ fiscal_years[f].company_id = templates[template_id].company_id
            /\ FitsRun(out.transactions)
            /\ transactions' = out.transactions
            /\ templates' = out.templates
            /\ last' = Report("apply_template", out.call)
            /\ hist' = Count(Issue(hist, out.call))
            /\ UNCHANGED <<accounts, fiscal_years, accruals, accrual_entries,
                           assets, asset_depreciations, session_state>>

\* accounts and amounts a caller passes when amending a verification
AmendAccounts ==
    {get_account_by_number(accounts, c, 1930) : c \in Companies}
    \cup {UnknownAccountId}

\* AccountingService.add_transaction_line
add_transaction_line ==
    \E transaction_id \in TxIds(transactions) \cup {next_rowid(transactions)},
       account_id \in AmendAccounts, debit \in Amounts, credit \in Amounts :
        /\ Fits(transactions)
        /\ hist.amends < MaxAmends
        /\ IF transaction_id \notin TxIds(transactions)
           THEN /\ UNCHANGED transactions
                /\ last' = Failed("add_transaction_line", "None")
           ELSE LET transaction == TxById(transactions, transaction_id)
                    line == Line(account_id, debit, credit)
                IN  /\ Len(transaction.lines) < MaxLines
                    /\ IF check_debit_or_credit(line)
                       THEN /\ transactions' = (transactions \ {transaction}) \cup
                                   {[transaction EXCEPT !.lines = Append(@, line)]}
                            /\ last' = Done("add_transaction_line")
                       ELSE /\ UNCHANGED transactions
                            /\ last' = Failed("add_transaction_line", "IntegrityError")
        /\ hist' = CountAmend(hist)
        /\ UNCHANGED <<accounts, fiscal_years, rule_postings, session_state>>

\* the fields update_transaction_line is asked to change (None leaves a field)
UpdateInputs ==
    {[account_id |-> a, debit |-> None, credit |-> None] : a \in AmendAccounts}
    \cup {[account_id |-> None, debit |-> d, credit |-> c] :
            d \in Amounts \cup {None}, c \in Amounts \cup {None}}

\* AccountingService.update_transaction_line; a line id is the verification's
\* id with the position of the line, position 0 being a line that is not there
update_transaction_line ==
    \E transaction \in transactions, i \in 0..MaxLines, in \in UpdateInputs :
        /\ Fits(transactions)
        /\ hist.amends < MaxAmends
        /\ i <= Len(transaction.lines)
        /\ IF i = 0
           THEN /\ UNCHANGED transactions
                /\ last' = Failed("update_transaction_line", "None")
           ELSE LET old == transaction.lines[i]
                    line == Line(IF in.account_id # None THEN in.account_id
                                 ELSE old.account_id,
                                 IF in.debit # None THEN in.debit ELSE old.debit,
                                 IF in.credit # None THEN in.credit ELSE old.credit)
                IN  IF check_debit_or_credit(line)
                    THEN /\ transactions' = (transactions \ {transaction}) \cup
                                {[transaction EXCEPT !.lines[i] = line]}
                         /\ last' = Done("update_transaction_line")
                    ELSE /\ UNCHANGED transactions
                         /\ last' = Failed("update_transaction_line", "IntegrityError")
        /\ hist' = CountAmend(hist)
        /\ UNCHANGED <<accounts, fiscal_years, rule_postings, session_state>>

Remove(seq, i) == SubSeq(seq, 1, i - 1) \o SubSeq(seq, i + 1, Len(seq))

\* AccountingService.delete_transaction_line
delete_transaction_line ==
    \E transaction \in transactions, i \in 0..MaxLines :
        /\ Fits(transactions)
        /\ hist.amends < MaxAmends
        /\ i <= Len(transaction.lines)
        /\ IF i = 0
           THEN /\ UNCHANGED transactions
                /\ last' = Failed("delete_transaction_line", "False")
           ELSE /\ transactions' = (transactions \ {transaction}) \cup
                       {[transaction EXCEPT !.lines = Remove(@, i)]}
                /\ last' = Done("delete_transaction_line")
        /\ hist' = CountAmend(hist)
        /\ UNCHANGED <<accounts, fiscal_years, rule_postings, session_state>>

\* postings, deletions, imports, the annual close and the carry of balances
Next ==
    \/ manual_entry
    \/ delete_transaction
    \/ import_file
    \/ close_year
    \/ create_opening_balances

Spec == Init /\ [][Next]_vars

\* the same with amendments of the lines of stored verifications
NextAmend ==
    \/ manual_entry
    \/ delete_transaction
    \/ import_file
    \/ close_year
    \/ create_opening_balances
    \/ add_transaction_line
    \/ update_transaction_line
    \/ delete_transaction_line

SpecAmend == Init /\ [][NextAmend]_vars

\* the accrual scheduler: definitions, scheduled runs, direct generation
NextAccrual ==
    \/ create_accrual
    \/ run_auto_accruals
    \/ generate_entry
    \/ deactivate_accrual

SpecAccrual == Init /\ [][NextAccrual]_vars

\* the accrual service on one session that its caller keeps over several calls
NextSession ==
    \/ create_accrual
    \/ generate_entry_kept_session
    \/ deactivate_accrual
    \/ close_session

SpecSession == Init /\ [][NextSession]_vars

\* create_transaction called in several sessions at the same time, the steps
\* of the calls interleaved
NextConcurrent ==
    \/ \E s \in Sessions : allocate_number(s)
    \/ \E s \in Sessions : flush_transaction(s)
    \/ \E s \in Sessions : flush_timeout(s)
    \/ \E s \in Sessions : commit_transaction(s)

SpecConcurrent == Init /\ [][NextConcurrent]_vars

\* the depreciation scheduler: the asset register and the period runs
NextDepreciation ==
    \/ create_asset
    \/ run_period_depreciation
    \/ dispose_asset

SpecDepreciation == Init /\ [][NextDepreciation]_vars

\* the template engine: definitions and their application
NextTemplate ==
    \/ create_template
    \/ apply_template

SpecTemplate == Init /\ [][NextTemplate]_vars

-----------------------------------------------------------------------------
(* Properties *)

\* the verification this step wrote through create_transaction, whoever called
Created == last'.tx_id # 0 /\ last'.tx_id \notin TxIds(transactions)
NewTx == TxById(transactions', last'.tx_id)

VerNumbers(txs, fiscal_year_id) ==
    {t.verification_number : t \in {u \in txs : u.fiscal_year_id = fiscal_year_id}}

CountIn(txs, fiscal_year_id) ==
    Cardinality({u \in txs : u.fiscal_year_id = fiscal_year_id})

C2_RejectsUnbalanced ==
    \A in \in CreateInputs :
        (total_debit(in.lines) # total_credit(in.lines) \/ total_debit(in.lines) = 0)
        => LET out == create_transaction(transactions, in.company_id,
                          in.fiscal_year_id, in.transaction_date, in.lines)
           IN  /\ ~out.call.ok
               /\ out.call.error = "ValueError"
               /\ out.transactions = transactions
               /\ get_next_verification_number(out.transactions,
                      in.company_id, in.fiscal_year_id)
                  = get_next_verification_number(transactions,
                        in.company_id, in.fiscal_year_id)

\* a call was rejected for its totals on a ledger that holds a verification
C2_Witness ==
    /\ last.op = "create_transaction" /\ last.error = "ValueError"
    /\ transactions # {}

\* C3: no two verifications of one company and fiscal year carry the same
\* verification number
C3_UniqueNumbers ==
    \A t \in transactions, u \in transactions :
        (t.company_id = u.company_id /\ t.fiscal_year_id = u.fiscal_year_id
         /\ t.verification_number = u.verification_number) => t = u

C5_NeverReissued ==
    [][Created =>
          NewTx.verification_number > HighWater(hist, NewTx.fiscal_year_id)]_vars

\* C6: once a fiscal year is closed, create_transaction writes nothing into it
C6_ClosedYearRejects ==
    [][Created => ~fiscal_years[NewTx.fiscal_year_id].is_closed]_vars

\* C7: create_transaction writes a verification only if its date lies in the
\* fiscal year it names
C7_DateInFiscalYear ==
    [][Created =>
          contains_date(fiscal_years[NewTx.fiscal_year_id],
                        NewTx.transaction_date)]_vars

\* C8: every verification line references an existing account that belongs to
\* the company of the line's verification
C8_LinesOnOwnAccounts ==
    \A t \in transactions : \A i \in 1..Len(t.lines) :
        /\ t.lines[i].account_id \in Ids(accounts)
        /\ accounts[t.lines[i].account_id].company_id = t.company_id

\* the lines of the ledger one by one: verification id and position
Postings == UNION {{<<t.id, i>> : i \in 1..Len(t.lines)} : t \in transactions}

PostingLine(p) == TxById(transactions, p[1]).lines[p[2]]
PostingDate(p) == TxById(transactions, p[1]).transaction_date

RECURSIVE MovementSum(_, _)
MovementSum(ps, column) ==
    IF ps = {} THEN 0
    ELSE LET p == CHOOSE q \in ps : TRUE
         IN  (IF column = "debit" THEN PostingLine(p).debit ELSE PostingLine(p).credit)
             + MovementSum(ps \ {p}, column)

\* the movements on an account in verifications dated on or before d
MovementsUpTo(account_id, d) ==
    {p \in Postings : PostingLine(p).account_id = account_id /\ PostingDate(p) <= d}

CashSale(company_id, x) ==
    LET bank == get_account_by_number(accounts, company_id, 1930)
        sales == get_account_by_number(accounts, company_id, 3010)
    IN  /\ bank # 0 /\ sales # 0
        /\ accounts[bank].opening_balance = 0
        /\ accounts[sales].opening_balance = 0
        /\ Cardinality(transactions) = 1
        /\ \A t \in transactions :
              t.company_id = company_id /\ t.lines = Posting(bank, x, sales, x)

C11_TrialBalanceBalances ==
    \A c \in Companies, d \in Dates \cup {NoDate} :
        RowSum(get_trial_balance(accounts, transactions, c, d), "debit")
        = RowSum(get_trial_balance(accounts, transactions, c, d), "credit")

\* C12: after the single cash sale of x (debit 1930, credit 3010) the period
\* result is the profit +x
C12_ProfitPositive ==
    \A c \in Companies, x \in 1..MaxAmount :
        CashSale(c, x) =>
            \A f \in Ids(fiscal_years) :
                (fiscal_years[f].company_id = c
                 /\ \A t \in transactions : t.transaction_date <= fiscal_years[f].end_date)
                => calculate_period_result(accounts, transactions, c,
                       fiscal_years[f].start_date, fiscal_years[f].end_date) = x

\* C13: close_year with the result disposition, on a fiscal year that passes
\* validation in a company that has accounts 2099 and 2098, creates for a
\* reported result r > 0 one verification dated the year's end date that
\* debits 2099 and credits 2098 by |r|, for r < 0 one that debits 2098 and
\* credits 2099 by |r|, and for r = 0 none
C13_ResultDisposition ==
    \A f \in Ids(fiscal_years) :
        LET fy == fiscal_years[f]
            c == fy.company_id
            r == calculate_period_result(accounts, transactions, c,
                     fy.start_date, fy.end_date)
            current_year == get_account_by_number(accounts, c, 2099)
            previous_year == get_account_by_number(accounts, c, 2098)
            out == close_year_outcome(accounts, fiscal_years, transactions, c, f, TRUE)
            added == out.transactions \ transactions
        IN  (/\ validate_closing(accounts, transactions, c, fy.end_date)
             /\ current_year # 0 /\ previous_year # 0)
            => /\ transactions \subseteq out.transactions
               /\ r = 0 => added = {}
               /\ r # 0 =>
                    /\ Cardinality(added) = 1
                    /\ out.call.called /\ out.call.ok
                    /\ \A t \in added :
                          /\ t.id = out.call.tx_id
                          /\ t.company_id = c /\ t.fiscal_year_id = f
                          /\ t.transaction_date = fy.end_date
                          /\ t.lines =
                               IF r > 0
                               THEN <<Line(current_year, abs(r), 0),
                                      Line(previous_year, 0, abs(r))>>
                               ELSE <<Line(previous_year, abs(r), 0),
                                      Line(current_year, 0, abs(r))>>

\* close_year has written the disposition of a positive reported result
C13_Witness ==
    /\ last.op = "close_year" /\ last.tx_id # 0
    /\ \E t \in transactions :
          /\ t.id = last.tx_id
          /\ fiscal_years[t.fiscal_year_id].is_closed
          /\ t.lines[1].account_id = get_account_by_number(accounts, t.company_id, 2099)
          /\ t.lines[1].debit > 0

\* C14: after create_opening_balances the opening balance of every account of
\* class 1 or 2 is the signed balance the account had at the end date of the
\* source year just before the call, a balance of zero included
C14_CarrySetsClosingBalance ==
    \A s \in Ids(fiscal_years) :
        LET c == fiscal_years[s].company_id
            after == create_opening_balances_outcome(accounts, fiscal_years,
                         transactions, c, s)
        IN  \A a \in get_accounts(accounts, c) :
                first_digit(accounts[a].number) \in {1, 2}
                => after[a].opening_balance
                   = get_account_balance(accounts, transactions, a,
                         fiscal_years[s].end_date)

\* C15: a second create_opening_balances right after the first leaves every
\* opening balance as the first call set it
C15_CarryIdempotent ==
    \A s \in Ids(fiscal_years) :
        LET c == fiscal_years[s].company_id
            once == create_opening_balances_outcome(accounts, fiscal_years,
                        transactions, c, s)
            twice == create_opening_balances_outcome(once, fiscal_years,
                         transactions, c, s)
        IN  \A a \in Ids(accounts) :
                twice[a].opening_balance = once[a].opening_balance

\* the booked entries of an accrual
Booked(accrual_id) ==
    {e \in EntriesOf(accrual_entries, accrual_id) : e.is_booked}

\* C16: once all n entries of an accrual are generated, entries 1..n-1 carry
\* the amount quantize(T / n), no entry is negative and the booked amounts sum
\* to exactly T
C16_AccrualTotality ==
    \A a \in Ids(accruals) :
        {e.period_number : e \in Booked(a)} = 1..accruals[a].periods
        => /\ EntrySum(Booked(a)) = accruals[a].total_amount
           /\ \A e \in Booked(a) :
                 /\ e.amount >= 0
                 /\ e.period_number < accruals[a].periods
                    => e.amount = quantize(accruals[a].total_amount,
                                      accruals[a].periods)

\* the keys (accrual, period_number) of a set of entries
EntryKeys(entries) == {<<e.accrual_id, e.period_number>> : e \in entries}

C18_InactiveAfterLastEntry ==
    \A a \in Ids(accruals) :
        (\E e \in Booked(a) : e.period_number = accruals[a].periods)
        => ~accruals[a].is_active

\* the assets a run for the period posts a depreciation for
PostedBy(before, after, period_date, period_type) ==
    {p.asset_id : p \in {q \in after \ before :
                            /\ q.depreciation_date = period_date
                            /\ q.period_type = period_type}}

\* C19: a second run_period_depreciation with the same company, period date
\* and period type creates no further depreciation record and no further
\* verification for an asset the first run posted, and there is at most one
\* record for an asset, period date and period type
C19_DepreciationIdempotent ==
    /\ \A p \in asset_depreciations, q \in asset_depreciations :
          (p.asset_id = q.asset_id /\ p.depreciation_date = q.depreciation_date
           /\ p.period_type = q.period_type) => p = q
    /\ \A f \in Ids(fiscal_years), g \in Ids(fiscal_years),
          d \in Dates, pt \in PeriodTypes :
          fiscal_years[f].company_id = fiscal_years[g].company_id
          => LET c == fiscal_years[f].company_id
                 first == run_period_depreciation_outcome(assets,
                              asset_depreciations, transactions, c, f, d, pt)
                 second == run_period_depreciation_outcome(assets,
                               first.asset_depreciations, first.transactions,
                               c, g, d, pt)
                 posted == PostedBy(asset_depreciations,
                               first.asset_depreciations, d, pt)
                 more == second.asset_depreciations \ first.asset_depreciations
             IN  /\ first.asset_depreciations \subseteq second.asset_depreciations
                 /\ first.transactions \subseteq second.transactions
                 /\ \A p \in more : p.asset_id \notin posted
                 /\ Cardinality(second.transactions \ first.transactions)
                    = Cardinality(more)

\* a run for a period in which an active asset already has its depreciation,
\* and still has value left to depreciate, created nothing
C19_Witness ==
    /\ last.op = "run_period_depreciation" /\ last.tx_id = 0
    /\ \E a \in Ids(assets) :
          /\ assets[a].is_active /\ assets[a].company_id = last.company_id
          /\ \E p \in DepreciationsOf(asset_depreciations, a) :
                /\ p.depreciation_date = last.period_date
                /\ p.period_type = last.period_type
          /\ get_book_value(assets, asset_depreciations, a, last.period_date)
             > assets[a].residual_value

\* the template has exactly one remainder line
OneRemainder(template) ==
    Cardinality({i \in 1..Len(template.lines) : template.lines[i].is_remainder}) = 1

\* C20: apply_template with a total T > 0, on a template with exactly one
\* remainder line whose other lines give different debit and credit totals,
\* creates a verification whose debits equal its credits, the remainder being
\* the absolute difference on the side that balances
C20_TemplateBalances ==
    \A k \in Ids(templates), f \in Ids(fiscal_years), total \in 1..MaxTotal :
        LET template == templates[k]
            lines == computed_lines(template.lines, total)
            diff == total_debit(lines) - total_credit(lines)
            out == apply_template_outcome(templates, transactions, k, f,
                       fiscal_years[f].start_date, total)
        IN  (/\ fiscal_years[f].company_id = template.company_id
             /\ OneRemainder(template) /\ diff # 0)
            => /\ out.call.ok
               /\ \E t \in out.transactions \ transactions :
                     /\ total_debit(t.lines) = total_credit(t.lines)
                     /\ LET r == t.lines[Len(t.lines)]
                        IN  IF diff > 0
                            THEN r.debit = 0 /\ r.credit = abs(diff)
                            ELSE r.debit = abs(diff) /\ r.credit = 0

\* C21: every stored template has at least two lines and at most one remainder
\* line, create_template storing nothing for any other definition
C21_TemplateWellFormed ==
    \A k \in Ids(templates) :
        /\ Len(templates[k].lines) >= 2
        /\ Cardinality({i \in 1..Len(templates[k].lines) :
                           templates[k].lines[i].is_remainder}) <= 1

\* C22: every verification an SIE import stores has, after the lines on unknown
\* accounts are dropped, a debit total equal to its credit total, a
\* verification whose resolved lines are unbalanced or empty being skipped
C22_ImportStoresBalanced ==
    [][last'.op = "import_file" =>
          \A t \in transactions' \ transactions :
              /\ t.lines # <<>>
              /\ total_debit(t.lines) = total_credit(t.lines)]_vars

\* C23: no two accounts of one company carry the same account number, an SIE
\* import skipping every account whose company and number already exist
C23_AccountNumbersUnique ==
    \A a \in Ids(accounts), b \in Ids(accounts) :
        (accounts[a].company_id = accounts[b].company_id
         /\ accounts[a].number = accounts[b].number) => a = b

\* C25: every stored verification line has a debit and a credit that are not
\* negative, and at most one of the two is greater than zero, whatever amounts
\* create_transaction, add_transaction_line and update_transaction_line were
\* called with
C25_LineSides ==
    \A t \in transactions :
        \A i \in 1..Len(t.lines) :
            /\ t.lines[i].debit >= 0
            /\ t.lines[i].credit >= 0
            /\ ~(t.lines[i].debit > 0 /\ t.lines[i].credit > 0)

\* a call that passed a negative amount or both sides for a line of a stored
\* verification was refused by the table's constraint
C25_Witness ==
    /\ last.op \in {"add_transaction_line", "update_transaction_line"}
    /\ last.error = "IntegrityError"
    /\ \E t \in transactions : Len(t.lines) >= 2

\* C27: the depreciation recorded for an asset never exceeds its acquisition
\* cost less its residual value, whatever period dates and period types
\* run_period_depreciation was called with and in whatever order
C27_BookValueAboveResidual ==
    \A a \in Ids(assets) :
        EntrySum(DepreciationsOf(asset_depreciations, a))
        <= assets[a].acquisition_cost - assets[a].residual_value

\* C28: after create_opening_balances from a source year, the balance of an
\* account of class 1 or 2 at a date of a later fiscal year is its closing
\* balance at the end date of the source year plus the movements dated after
\* that end date and up to the date, the movements of the source year being
\* counted once
C28_CarriedBalanceCountsOnce ==
    \A s \in Ids(fiscal_years), t \in Ids(fiscal_years), d \in Dates :
        LET c == fiscal_years[s].company_id
            end == fiscal_years[s].end_date
            after == create_opening_balances_outcome(accounts, fiscal_years,
                         transactions, c, s)
        IN  (/\ fiscal_years[t].company_id = c
             /\ fiscal_years[t].start_date > end
             /\ contains_date(fiscal_years[t], d))
            => \A a \in get_accounts(accounts, c) :
                   first_digit(accounts[a].number) \in {1, 2}
                   => get_account_balance(after, transactions, a, d)
                      = get_account_balance(accounts, transactions, a, end)
                        + (column_sum(transactions, a, d, "debit")
                           - column_sum(transactions, a, end, "debit"))
                        - (column_sum(transactions, a, d, "credit")
                           - column_sum(transactions, a, end, "credit"))

\* C29: close_year with the result disposition requested, called for a fiscal
\* year that is already closed, creates no verification and leaves every
\* account balance as it was
C29_CloseYearOnce ==
    \A f \in Ids(fiscal_years) :
        fiscal_years[f].is_closed
        => LET out == close_year_outcome(accounts, fiscal_years, transactions,
                          fiscal_years[f].company_id, f, TRUE)
           IN  /\ out.transactions = transactions
               /\ \A a \in Ids(accounts) :
                     get_account_balance(accounts, out.transactions, a, NoDate)
                     = get_account_balance(accounts, transactions, a, NoDate)

\* the accounts, opening balances and verifications of a company and one of
\* its fiscal years, in the shape of the data a parser returns
RECURSIVE LedgerAccounts(_, _)
LedgerAccounts(accs, ids) ==
    IF ids = <<>> THEN <<>>
    ELSE <<[number |-> accs[Head(ids)].number, name |-> accs[Head(ids)].name]>>
         \o LedgerAccounts(accs, Tail(ids))

RECURSIVE LedgerBalances(_, _)
LedgerBalances(accs, ids) ==
    IF ids = <<>> THEN <<>>
    ELSE LET rest == LedgerBalances(accs, SubSeq(ids, 1, Len(ids) - 1))
             a == ids[Len(ids)]
         IN  IF accs[a].opening_balance # 0
             THEN put(rest, accs[a].number, accs[a].opening_balance)
             ELSE rest

RECURSIVE LedgerLines(_, _)
LedgerLines(accs, lines) ==
    IF lines = <<>> THEN <<>>
    ELSE <<[account_number |-> number_of_account(accs, Head(lines).account_id),
            debit |-> Head(lines).debit, credit |-> Head(lines).credit]>>
         \o LedgerLines(accs, Tail(lines))

RECURSIVE LedgerVerifications(_, _, _)
LedgerVerifications(accs, txs, ids) ==
    IF ids = <<>> THEN <<>>
    ELSE LET t == TxById(txs, Head(ids))
         IN  <<[verification_number |-> t.verification_number,
                date |-> t.transaction_date,
                lines |-> LedgerLines(accs, t.lines)]>>
             \o LedgerVerifications(accs, txs, Tail(ids))

LedgerData(company_id, fiscal_year_id) ==
    LET ids == Ascending(get_accounts(accounts, company_id))
    IN  [fiscal_year_start |-> fiscal_years[fiscal_year_id].start_date,
         fiscal_year_end |-> fiscal_years[fiscal_year_id].end_date,
         accounts |-> LedgerAccounts(accounts, ids),
         opening_balances |-> LedgerBalances(accounts, ids),
         transactions |-> LedgerVerifications(accounts, transactions,
             Ascending({t.id : t \in {u \in transactions :
                            /\ u.company_id = company_id
                            /\ u.fiscal_year_id = fiscal_year_id}}))]

\* C26: for every ledger state the engine produces, parsing the SIE4 file
\* written for a company and one of its fiscal years gives back the fiscal
\* year, the accounts, the opening balances and the verifications of the
\* state, line for line
C26_SieRoundTrip ==
    \A f \in Ids(fiscal_years) :
        parse(emit(accounts, fiscal_years, transactions,
                   fiscal_years[f].company_id, f))
        = LedgerData(fiscal_years[f].company_id, f)

\* C30: every accrual entry in the table is booked and linked to a
\* verification: an entry whose posting raised is never written, not even by a
\* later commit on the same session
C30_EntriesBooked ==
    \A e \in accrual_entries : e.is_booked /\ e.transaction_id # 0

\* C24: create_transaction calls that run at the same time on one (company,
\* fiscal year) never hold the same verification number, and the numbers of
\* the committed verifications of a fiscal year are 1..n without a duplicate
\* or a gap
C24_ConcurrentNumbers ==
    /\ \A s, o \in Sessions :
          /\ s # o
          /\ sessions[s].pc # "idle"
          /\ sessions[o].pc # "idle"
          /\ sessions[s].company_id = sessions[o].company_id
          /\ sessions[s].fiscal_year_id = sessions[o].fiscal_year_id
          => sessions[s].ver_number # sessions[o].ver_number
    /\ \A f \in Ids(fiscal_years) :
          /\ VerNumbers(transactions, f) = 1..CountIn(transactions, f)
          /\ \A t, u \in transactions :
                t.fiscal_year_id = f /\ u.fiscal_year_id = f
                /\ t.verification_number = u.verification_number => t = u

====
